---- MODULE Spec2Model ----
(***************************************************************************)
(* Model of klaviyo_review_extractor.py: the date chunker, the paginated   *)
(* event fetcher, the detail enricher, the record extractor and main().    *)
(*                                                                         *)
(* JSON values are tagged records: Null is Python's None, Str(s) a string, *)
(* List(q) a list, Obj(f) a dict whose keys are DOMAIN f (a key that is    *)
(* not in the domain is absent).  Raise stands for an exception that       *)
(* propagates out of the function that is being evaluated.                 *)
(***************************************************************************)
EXTENDS Integers, Sequences, FiniteSets, TLC

VARIABLES
    cs_start, cs_end, cs_chunks, cs_pc,     \* one call of generate_date_chunks
    ex_event, ex_row, ex_count, ex_pc,      \* the loop of extract_review_data
    \* one run of main()
    pc,                     \* position in main and in the functions it calls
    api_key, start_date, end_date, detailed,        \* the command line
    metrics_response,       \* what GET /metrics answered (Null: it failed)
    metric_id,              \* the value get_review_metric_id returned
    chunks, chunk_i,        \* process_date_range_in_chunks: the list, the index i
    url, params, all_events, page_count,            \* locals of fetch_review_events
    fetch_log,              \* the requests of the current call and their answers
    event_ids, detail_i, detailed_events,           \* locals of get_detailed_event_data
    lookup_log,             \* the lookups of the current call and their results
    chunk_events, chunk_data, all_extracted_data,
    n_metric_requests, n_list_requests, n_detail_requests,  \* requests issued
    n_listed_events,        \* events the listing returned in the whole run
    failed_chunks,          \* indices of the chunks where a page request failed
    save_calls, csv_file    \* calls of save_to_csv, the output file

chunk_vars == <<cs_start, cs_end, cs_chunks, cs_pc>>
extract_vars == <<ex_event, ex_row, ex_count, ex_pc>>
input_vars == <<api_key, start_date, end_date, detailed>>
fetch_vars == <<url, params, all_events, page_count, fetch_log>>
detail_vars == <<event_ids, detail_i, detailed_events, lookup_log>>
count_vars == <<n_metric_requests, n_list_requests, n_detail_requests,
                n_listed_events, failed_chunks>>
main_vars == <<pc, input_vars, metrics_response, metric_id, chunks, chunk_i,
               fetch_vars, detail_vars, chunk_events, chunk_data,
               all_extracted_data, count_vars, save_calls, csv_file>>
vars == <<chunk_vars, extract_vars, main_vars>>

----------------------------------------------------------------------------
(* Bounds *)

BaseYear == 2023
MaxSpanDays == 100
MaxEvents == 2
MaxPages == 2

----------------------------------------------------------------------------
(* Calendar arithmetic: datetime, timedelta, relativedelta *)

Min(a, b) == IF a <= b THEN a ELSE b

IsLeap(y) == (y % 4 = 0) /\ ((y % 100 # 0) \/ (y % 400 = 0))

DaysInMonth(y, m) ==
    IF m = 2 THEN (IF IsLeap(y) THEN 29 ELSE 28)
    ELSE IF m \in {4, 6, 9, 11} THEN 30 ELSE 31

DaysInYear(y) == IF IsLeap(y) THEN 366 ELSE 365

RECURSIVE DaysBeforeYear(_)
DaysBeforeYear(y) ==
    IF y <= BaseYear THEN 0 ELSE DaysBeforeYear(y - 1) + DaysInYear(y - 1)

RECURSIVE DaysBeforeMonth(_, _)
DaysBeforeMonth(y, m) ==
    IF m <= 1 THEN 0 ELSE DaysBeforeMonth(y, m - 1) + DaysInMonth(y, m - 1)

\* datetime.strptime(s, "%Y-%m-%d"): the date string <<y, m, d>> as a
\* datetime, held as the number of days since January 1st of BaseYear.
Strptime(s) == DaysBeforeYear(s[1]) + DaysBeforeMonth(s[1], s[2]) + (s[3] - 1)

RECURSIVE YearOfOrd(_, _)
YearOfOrd(n, y) ==
    IF n < DaysInYear(y) THEN <<y, n>> ELSE YearOfOrd(n - DaysInYear(y), y + 1)

RECURSIVE MonthOfOrd(_, _, _)
MonthOfOrd(n, y, m) ==
    IF n < DaysInMonth(y, m) THEN <<y, m, n + 1>>
    ELSE MonthOfOrd(n - DaysInMonth(y, m), y, m + 1)

\* dt.strftime("%Y-%m-%d")
Strftime(n) ==
    LET yn == YearOfOrd(n, BaseYear) IN MonthOfOrd(yn[2], yn[1], 1)

\* dt + relativedelta(months=k), 0 <= k <= 11: the month advances, the year
\* carries, and the day is clipped to the length of the resulting month.
AddMonthsBy30Days(n, k) == n + 30 * k

AddMonths(n, k) ==
    LET s  == Strftime(n)
        m0 == s[2] + k
        y  == IF m0 > 12 THEN s[1] + 1 ELSE s[1]
        m  == IF m0 > 12 THEN m0 - 12 ELSE m0
        d  == Min(s[3], DaysInMonth(y, m))
    IN  Strptime(<<y, m, d>>)

----------------------------------------------------------------------------
(* generate_date_chunks *)

ChunkMonths == 1

\* current_end of one loop iteration
ChunkEndNoMin(current_start, end_dt) ==
    AddMonths(current_start, ChunkMonths) - 1

ChunkEnd(current_start, end_dt) ==
    Min(AddMonths(current_start, ChunkMonths) - 1, end_dt)

RECURSIVE ChunkLoop(_, _, _)
ChunkLoop(current_start, end_dt, chunk_list) ==
    IF current_start <= end_dt
    THEN LET current_end == ChunkEnd(current_start, end_dt)
         IN  ChunkLoop(current_end + 1, end_dt,
                       Append(chunk_list, <<Strftime(current_start), Strftime(current_end)>>))
    ELSE chunk_list

generate_date_chunks(start, end) ==
    ChunkLoop(Strptime(start), Strptime(end), <<>>)


----------------------------------------------------------------------------
(* JSON values and the dict operations the extractor uses *)

Null == [t |-> "null"]
Str(s) == [t |-> "str", v |-> s]
List(q) == [t |-> "list", v |-> q]
Obj(f) == [t |-> "obj", v |-> f]
NoKeys == [k \in {} |-> Null]
EmptyDict == Obj(NoKeys)
Raise == [t |-> "raise"]

IsObj(x) == x.t = "obj"

\* Python truth value of a JSON value
Truthy(x) ==
    CASE x.t = "null" -> FALSE
      [] x.t = "str"  -> x.v # ""
      [] x.t = "list" -> Len(x.v) > 0
      [] x.t = "obj"  -> DOMAIN x.v # {}
      [] OTHER        -> FALSE

\* o.get(k, default): AttributeError when o is not a dict (None has no .get)
DictGet(o, k, default) ==
    IF ~IsObj(o) THEN Raise
    ELSE IF k \in DOMAIN o.v THEN o.v[k] ELSE default

\* a or b
PyOr(a, b) == IF a = Raise THEN Raise ELSE IF Truthy(a) THEN a ELSE b

RECURSIVE JoinStr(_)
JoinStr(q) ==
    IF Len(q) = 0 THEN ""
    ELSE IF Len(q) = 1 THEN q[1]
    ELSE q[1] \o ", " \o JoinStr(Tail(q))

----------------------------------------------------------------------------
(* extract_review_data *)

ReviewFields ==
    {"review_verified", "review_email", "review_id", "review_rating",
     "review_author", "review_status", "review_has_media",
     "review_content", "review_title", "review_link", "is_store_review"}

ProductColumns ==
    {"product_id", "product_title", "product_handle", "product_type",
     "product_vendor", "product_tags", "variant_id", "variant_title",
     "variant_sku"}

StructuredColumns ==
    {"structured_product_name", "structured_product_url",
     "structured_product_image_url"}

\* key.startswith("CQ:"), over the keys the modelled bags use
CQKeys == {"CQ:size", "CQ:fit"}
StartsWithCQ(key) == key \in CQKeys

\* line 203
PropertyBagPropertiesFirst(attributes) ==
    PyOr(DictGet(attributes, "properties", EmptyDict),
         DictGet(attributes, "event_properties", EmptyDict))

PropertyBag(attributes) ==
    PyOr(DictGet(attributes, "event_properties", EmptyDict),
         DictGet(attributes, "properties", EmptyDict))

\* line 209
ProfileEmail(attributes) ==
    DictGet(DictGet(DictGet(DictGet(attributes, "profile", EmptyDict),
                            "data", EmptyDict),
                    "attributes", EmptyDict),
            "email", Null)

\* lines 213-219
CQUpdate(properties) ==
    [key \in {k \in DOMAIN properties.v : StartsWithCQ(k)} |->
        IF properties.v[key].t = "list"
        THEN Str(JoinStr(properties.v[key].v))
        ELSE properties.v[key]]

\* lines 228-229
ReviewUpdate(properties) ==
    [field \in ReviewFields |-> DictGet(properties, field, Null)]

NineColumns(product_data, variant_data) ==
    [c \in ProductColumns |->
        CASE c = "product_id"     -> DictGet(product_data, "id", Null)
          [] c = "product_title"  -> DictGet(product_data, "title", Null)
          [] c = "product_handle" -> DictGet(product_data, "handle", Null)
          [] c = "product_type"   -> DictGet(product_data, "product_type", Null)
          [] c = "product_vendor" -> DictGet(product_data, "vendor", Null)
          [] c = "product_tags"   -> DictGet(product_data, "tags", Null)
          [] c = "variant_id"     -> DictGet(variant_data, "id", Null)
          [] c = "variant_title"  -> DictGet(variant_data, "title", Null)
          [] c = "variant_sku"    -> DictGet(variant_data, "sku", Null)]

\* lines 232-245: the columns the product block adds, or Raise
ProductUpdateSkipsEmptyVariant(properties) ==
    LET product_data == DictGet(properties, "product", EmptyDict) IN
    IF ~Truthy(product_data) THEN NoKeys
    ELSE IF ~IsObj(product_data) THEN Raise
    ELSE LET variant_data == PyOr(DictGet(product_data, "variant", Null), EmptyDict) IN
         IF ~IsObj(variant_data) THEN Raise
         ELSE IF ~Truthy(variant_data)
              THEN [c \in {"product_id", "product_title", "product_handle",
                           "product_type", "product_vendor", "product_tags"} |->
                       NineColumns(product_data, variant_data)[c]]
              ELSE NineColumns(product_data, variant_data)

ProductUpdate(properties) ==
    LET product_data == DictGet(properties, "product", EmptyDict) IN
    IF ~Truthy(product_data) THEN NoKeys
    ELSE IF ~IsObj(product_data) THEN Raise
    ELSE LET variant_data == PyOr(DictGet(product_data, "variant", Null), EmptyDict) IN
         IF ~IsObj(variant_data) THEN Raise
         ELSE NineColumns(product_data, variant_data)

\* lines 248-254
StructuredUpdate(properties) ==
    LET structured_product == DictGet(properties, "structured_product", EmptyDict) IN
    IF ~Truthy(structured_product) THEN NoKeys
    ELSE IF ~IsObj(structured_product) THEN Raise
    ELSE [c \in StructuredColumns |->
            CASE c = "structured_product_name" -> DictGet(structured_product, "product_name", Null)
              [] c = "structured_product_url"  -> DictGet(structured_product, "url", Null)
              [] c = "structured_product_image_url" -> DictGet(structured_product, "image_url", Null)]

\* lines 205-256 for one event whose attributes and property bag are given:
\* the row (a function from the columns present to their values) or Raise.
\* A later update overrides an earlier one, so it stands to the left of @@.
RowFromBag(event, attributes, properties) ==
    LET profile_email == ProfileEmail(attributes) IN
    IF profile_email = Raise THEN Raise
    ELSE IF ~IsObj(properties) THEN Raise
    ELSE LET product == ProductUpdate(properties)
             structured == StructuredUpdate(properties)
         IN  IF product = Raise \/ structured = Raise THEN Raise
             ELSE [t |-> "row",
                   v |-> structured @@ product @@ ReviewUpdate(properties)
                         @@ CQUpdate(properties)
                         @@ [c \in {"event_id", "event_datetime", "profile_email"} |->
                               CASE c = "event_id" -> DictGet(event, "id", Null)
                                 [] c = "event_datetime" -> DictGet(attributes, "datetime", Null)
                                 [] c = "profile_email" -> profile_email]]

\* one iteration of the loop at line 200
ExtractRow(event) ==
    LET attributes == DictGet(event, "attributes", EmptyDict) IN
    IF ~IsObj(attributes) THEN Raise
    ELSE RowFromBag(event, attributes, PropertyBag(attributes))

\* extract_review_data(events): the rows, or the exception of the first
\* event whose iteration raises
RECURSIVE ExtractLoop(_, _)
ExtractLoop(events, extracted_data) ==
    IF Len(events) = 0 THEN [raised |-> FALSE, rows |-> extracted_data]
    ELSE LET row_data == ExtractRow(Head(events)) IN
         IF row_data = Raise THEN [raised |-> TRUE, rows |-> <<>>]
         ELSE ExtractLoop(Tail(events), Append(extracted_data, row_data))

extract_review_data(events) == ExtractLoop(events, <<>>)

----------------------------------------------------------------------------
(* Values of the variables of a component that is not running *)

ChunkIdle ==
    /\ cs_start = <<BaseYear, 1, 1>>
    /\ cs_end = <<BaseYear, 1, 1>>
    /\ cs_chunks = <<>>
    /\ cs_pc = "idle"

ExtractIdle ==
    /\ ex_event = Null
    /\ ex_row = Null
    /\ ex_count = 0
    /\ ex_pc = "idle"

MainIdle ==
    /\ pc = "idle"
    /\ api_key = Null /\ detailed = FALSE
    /\ start_date = <<BaseYear, 1, 1>> /\ end_date = <<BaseYear, 1, 1>>
    /\ metrics_response = Null /\ metric_id = Null
    /\ chunks = <<>> /\ chunk_i = 0
    /\ url = Null /\ params = Null /\ all_events = <<>> /\ page_count = 0
    /\ fetch_log = <<>>
    /\ event_ids = <<>> /\ detail_i = 0 /\ detailed_events = <<>>
    /\ lookup_log = <<>>
    /\ chunk_events = <<>> /\ chunk_data = <<>> /\ all_extracted_data = <<>>
    /\ n_metric_requests = 0 /\ n_list_requests = 0 /\ n_detail_requests = 0
    /\ n_listed_events = 0 /\ failed_chunks = {}
    /\ save_calls = 0 /\ csv_file = Null

----------------------------------------------------------------------------
(* Specification of the loop of extract_review_data over upstream events *)

\* the "profile" entry of an event's attributes, cut at every link
ProfileFrags ==
    {NoKeys,
     "profile" :> Null,
     "profile" :> EmptyDict,
     "profile" :> Obj("data" :> Null),
     "profile" :> Obj("data" :> EmptyDict),
     "profile" :> Obj("data" :> Obj("attributes" :> Null)),
     "profile" :> Obj("data" :> Obj("attributes" :> EmptyDict)),
     "profile" :> Obj("data" :> Obj("attributes" :> Obj("email" :> Null))),
     "profile" :> Obj("data" :> Obj("attributes" :> Obj("email" :> Str("a@example.com"))))}

\* the "product" entry of a property bag
ProductFrags ==
    {NoKeys,
     "product" :> Null,
     "product" :> EmptyDict,
     "product" :> Obj("id" :> Str("p1")),
     "product" :> Obj(("title" :> Str("Shirt")) @@ ("variant" :> Null)),
     "product" :> Obj(("id" :> Str("p1")) @@ ("variant" :> EmptyDict)),
     "product" :> Obj(("id" :> Str("p1")) @@ ("title" :> Str("Shirt"))
                      @@ ("handle" :> Str("shirt")) @@ ("product_type" :> Str("top"))
                      @@ ("vendor" :> Str("acme")) @@ ("tags" :> Str("new"))
                      @@ ("variant" :> Obj(("id" :> Str("v1")) @@ ("title" :> Str("M"))
                                           @@ ("sku" :> Str("sku1")))))}

StructuredFrags ==
    {NoKeys,
     "structured_product" :> Obj(("product_name" :> Str("Shirt")) @@ ("url" :> Str("u")))}

\* a property bag whose review_id says which key of the attributes held it
Bag(tag, product, structured) ==
    Obj(product @@ structured @@ ("review_id" :> Str(tag))
        @@ ("review_rating" :> Str("5"))
        @@ ("CQ:size" :> List(<<"s", "m">>)) @@ ("CQ:fit" :> Str("true"))
        @@ ("other" :> Str("x")))

EventPropertiesFrags ==
    {NoKeys, "event_properties" :> Null, "event_properties" :> EmptyDict}
    \cup {"event_properties" :> Bag("detail", p, s) : p \in ProductFrags, s \in StructuredFrags}

PropertiesFrags ==
    {NoKeys, "properties" :> Null, "properties" :> EmptyDict}
    \cup {"properties" :> Bag("bulk", p, NoKeys) : p \in ProductFrags}

Event(id, profile, event_properties, properties) ==
    Obj(("id" :> Str(id))
        @@ ("attributes" :> Obj(("datetime" :> Str("2023-01-05T10:00:00Z"))
                                @@ profile @@ event_properties @@ properties)))

\* every cut of the profile chain with a few bags, every pair of bags with
\* the profile absent or whole, an event without attributes and one whose
\* attributes are null
Events ==
    {Event("e1", pf, ep, pr) :
        pf \in ProfileFrags,
        ep \in {NoKeys, "event_properties" :> Bag("detail", NoKeys, NoKeys)},
        pr \in {NoKeys, "properties" :> Bag("bulk", NoKeys, NoKeys)}}
    \cup
    {Event("e1", pf, ep, pr) :
        pf \in {NoKeys,
                "profile" :> Obj("data" :> Obj("attributes" :> Obj("email" :> Str("a@example.com"))))},
        ep \in EventPropertiesFrags, pr \in PropertiesFrags}
    \cup {Obj("id" :> Str("e1")), Obj(("id" :> Str("e1")) @@ ("attributes" :> Null))}

ExtractInit ==
    /\ ChunkIdle
    /\ MainIdle
    /\ ex_event = Null
    /\ ex_row = Null
    /\ ex_count = 0
    /\ ex_pc = "loop"

\* one iteration of "for event in events": the next event of the list is any
\* upstream event; ex_count is len(extracted_data)
ExtractIteration ==
    /\ ex_pc = "loop"
    /\ ex_count < MaxEvents
    /\ \E event \in Events :
          LET row_data == ExtractRow(event) IN
          /\ ex_event' = event
          /\ ex_row' = row_data
          /\ ex_count' = IF row_data = Raise THEN ex_count ELSE ex_count + 1
          /\ ex_pc' = IF row_data = Raise THEN "raised" ELSE "loop"
    /\ UNCHANGED <<chunk_vars, main_vars>>

\* the list is exhausted: return extracted_data
ExtractReturn ==
    /\ ex_pc = "loop"
    /\ ex_pc' = "returned"
    /\ UNCHANGED <<ex_event, ex_row, ex_count, chunk_vars, main_vars>>

ExtractNext == ExtractIteration \/ ExtractReturn

SpecExtract == ExtractInit /\ [][ExtractNext]_vars

----------------------------------------------------------------------------
(* Specification of one call of generate_date_chunks *)

StartDates ==
    {<<BaseYear, m, d>> : m \in 1..12, d \in 1..31} \cap
    {s \in {BaseYear} \X (1..12) \X (1..31) : s[3] <= DaysInMonth(s[1], s[2])}

ChunkInit ==
    /\ ExtractIdle
    /\ MainIdle
    /\ cs_start \in StartDates
    /\ \E k \in (0 - 1)..MaxSpanDays :
          /\ Strptime(cs_start) + k >= 0
          /\ cs_end = Strftime(Strptime(cs_start) + k)
    /\ cs_chunks = <<>>
    /\ cs_pc = "call"

CallGenerateDateChunks ==
    /\ cs_pc = "call"
    /\ cs_chunks' = generate_date_chunks(cs_start, cs_end)
    /\ cs_pc' = "returned"
    /\ UNCHANGED <<cs_start, cs_end, extract_vars, main_vars>>

ChunkNext == CallGenerateDateChunks

SpecChunks == ChunkInit /\ [][ChunkNext]_vars

----------------------------------------------------------------------------
(* The API client: requests and the answers of the upstream API *)

PageSize == 200

BaseUrl == "https://a.klaviyo.com/api"
EventsUrl == BaseUrl \o "/events"
CursorUrl == EventsUrl \o "?page[cursor]=next"

\* lines 78-93: the query parameters of the first request of a chunk
EventsParams(metric, chunk_start, chunk_end) ==
    [filter    |-> <<<<"equals", "metric_id", metric>>,
                     <<"greater-or-equal", "datetime", chunk_start, "T00:00:00Z">>,
                     <<"less-or-equal", "datetime", chunk_end, "T23:59:59Z">>>>,
     page_size |-> PageSize,
     sort      |-> "datetime",
     include   |-> "metric"]

\* line 99: params if url == f"{self.base_url}/events" else None
RequestParams(request_url, request_params) ==
    IF request_url = Str(EventsUrl) THEN request_params ELSE Null

\* line 103: data.get("data", [])
ResponseEvents(data) == DictGet(data, "data", List(<<>>)).v

\* lines 110-111: data.get("links", {}).get("next")
NextUrl(data) == DictGet(DictGet(data, "links", EmptyDict), "next", Null)

\* line 112: params = None
ParamsKept(request_params) == request_params

ParamsAfterPage(request_params) == Null

\* lines 56-65: the id of the first metric named "Submitted review", or None
RECURSIVE FindReviewMetric(_)
FindReviewMetric(metrics) ==
    IF Len(metrics) = 0 THEN Null
    ELSE IF DictGet(DictGet(Head(metrics), "attributes", EmptyDict), "name", Null)
            = Str("Submitted review")
         THEN DictGet(Head(metrics), "id", Null)
         ELSE FindReviewMetric(Tail(metrics))

\* get_review_metric_id for a given answer (Null: the request raised or
\* raise_for_status raised)
MetricIdOfFirstMetric(response) ==
    IF response = Null THEN Null
    ELSE LET metrics == DictGet(response, "data", List(<<>>)).v IN
         IF Len(metrics) = 0 THEN Null ELSE DictGet(Head(metrics), "id", Null)

MetricIdOf(response) ==
    IF response = Null THEN Null
    ELSE FindReviewMetric(DictGet(response, "data", List(<<>>)).v)

Metric(id, name) == Obj(("id" :> Str(id)) @@ ("attributes" :> Obj("name" :> Str(name))))

\* answers of GET /metrics
MetricsResponses ==
    {Null,
     EmptyDict,
     Obj("data" :> List(<<Metric("M0", "Placed Order"), Metric("M3", "Submitted Review")>>)),
     Obj("data" :> List(<<Obj("attributes" :> Obj("name" :> Str("Submitted review")))>>)),
     Obj("data" :> List(<<Metric("M0", "Placed Order"), Metric("M1", "Submitted review")>>)),
     Obj("data" :> List(<<Metric("M2", "Submitted review"), Metric("M1", "Submitted review")>>))}

ProfileWhole ==
    "profile" :> Obj("data" :> Obj("attributes" :> Obj("email" :> Str("a@example.com"))))

WholeProduct ==
    "product" :> Obj(("id" :> Str("p1")) @@ ("title" :> Str("Shirt"))
                     @@ ("variant" :> Obj("sku" :> Str("sku1"))))

\* the events the listing returns: one whose extraction completes and one
\* whose profile is null
ListedEvents ==
    {Event("e1", ProfileWhole, NoKeys, "properties" :> Bag("bulk", WholeProduct, NoKeys)),
     Event("e2", "profile" :> Null, NoKeys, "properties" :> Bag("bulk", NoKeys, NoKeys))}

\* the full record of the event with a given id
DetailOf(event_id) ==
    IF event_id = Str("e1")
    THEN Event("e1", ProfileWhole, "event_properties" :> Bag("detail", WholeProduct, NoKeys), NoKeys)
    ELSE Event("e2", "profile" :> Null, "event_properties" :> Bag("detail", NoKeys, NoKeys), NoKeys)

PageEventLists == {<<>>} \cup {<<e>> : e \in ListedEvents}

StopLinks == {NoKeys, "links" :> Obj("next" :> Null)}

MoreLinks ==
    {"links" :> Obj("next" :> Str(CursorUrl)),
     "links" :> Obj("next" :> Str(EventsUrl))}

\* answers of a successful list request; the API offers a further page only
\* while more is TRUE
PageResponses(more) ==
    {Obj(("data" :> List(evs)) @@ links) :
        evs \in PageEventLists,
        links \in StopLinks \cup (IF more THEN MoreLinks ELSE {})}

\* get_event_by_id: None on a non-200 status or an exception, else the body
LookupResults(event_id) == {Null, Obj("data" :> DetailOf(event_id))}

\* the command line: date ranges of no, one and two chunks
Ranges ==
    {<<(<<BaseYear, 2, 1>>), (<<BaseYear, 1, 31>>)>>,
     <<(<<BaseYear, 1, 10>>), (<<BaseYear, 1, 20>>)>>,
     <<(<<BaseYear, 1, 31>>), (<<BaseYear, 3, 5>>)>>}

----------------------------------------------------------------------------
(* Specification of one run of main *)

Init ==
    /\ ChunkIdle
    /\ ExtractIdle
    /\ pc = "main"
    \* line 286: args.api_key or os.getenv("KLAVIYO_API_KEY")
    /\ \E arg \in {Null, Str("")}, env \in {Null, Str("pk_1")} : api_key = PyOr(arg, env)
    /\ \E r \in Ranges : start_date = r[1] /\ end_date = r[2]
    /\ detailed \in BOOLEAN
    /\ metrics_response = Null /\ metric_id = Null
    /\ chunks = <<>> /\ chunk_i = 0
    /\ url = Null /\ params = Null /\ all_events = <<>> /\ page_count = 0
    /\ fetch_log = <<>>
    /\ event_ids = <<>> /\ detail_i = 0 /\ detailed_events = <<>>
    /\ lookup_log = <<>>
    /\ chunk_events = <<>> /\ chunk_data = <<>> /\ all_extracted_data = <<>>
    /\ n_metric_requests = 0 /\ n_list_requests = 0 /\ n_detail_requests = 0
    /\ n_listed_events = 0 /\ failed_chunks = {}
    /\ save_calls = 0 /\ csv_file = Null

ResetChunkLocals ==
    /\ url' = Null /\ params' = Null /\ all_events' = <<>> /\ page_count' = 0
    /\ fetch_log' = <<>>
    /\ event_ids' = <<>> /\ detail_i' = 0 /\ detailed_events' = <<>>
    /\ lookup_log' = <<>>
    /\ chunk_events' = <<>> /\ chunk_data' = <<>>

\* lines 286-292
MainResolveKey ==
    /\ pc = "main"
    /\ pc' = IF Truthy(api_key) THEN "lookup" ELSE "done"
    /\ UNCHANGED <<chunk_vars, extract_vars, input_vars, metrics_response, metric_id,
                   chunks, chunk_i, fetch_vars, detail_vars, chunk_events, chunk_data,
                   all_extracted_data, count_vars, save_calls, csv_file>>

\* lines 296-298 with get_review_metric_id, lines 49-69
GetReviewMetricId ==
    /\ pc = "lookup"
    /\ \E response \in MetricsResponses :
          /\ metrics_response' = response
          /\ metric_id' = MetricIdOf(response)
          /\ pc' = IF Truthy(MetricIdOf(response)) THEN "process" ELSE "done"
    /\ n_metric_requests' = n_metric_requests + 1
    /\ UNCHANGED <<chunk_vars, extract_vars, input_vars, chunks, chunk_i, fetch_vars,
                   detail_vars, chunk_events, chunk_data, all_extracted_data,
                   n_list_requests, n_detail_requests, n_listed_events, failed_chunks,
                   save_calls, csv_file>>

\* lines 166-169
ProcessStart ==
    /\ pc = "process"
    /\ chunks' = generate_date_chunks(start_date, end_date)
    /\ chunk_i' = 1
    /\ pc' = "chunk_loop"
    /\ UNCHANGED <<chunk_vars, extract_vars, input_vars, metrics_response, metric_id,
                   fetch_vars, detail_vars, chunk_events, chunk_data,
                   all_extracted_data, count_vars, save_calls, csv_file>>

\* line 175 and lines 73-95: fetch_review_events is entered for chunk i
FetchStart ==
    /\ pc = "chunk_loop"
    /\ chunk_i <= Len(chunks)
    /\ url' = Str(EventsUrl)
    /\ params' = EventsParams(metric_id, chunks[chunk_i][1], chunks[chunk_i][2])
    /\ all_events' = <<>>
    /\ page_count' = 0
    /\ fetch_log' = <<>>
    /\ pc' = "fetch"
    /\ UNCHANGED <<chunk_vars, extract_vars, input_vars, metrics_response, metric_id,
                   chunks, chunk_i, detail_vars, chunk_events, chunk_data,
                   all_extracted_data, count_vars, save_calls, csv_file>>

\* lines 97-115: a page request that is answered
FetchPageOk ==
    /\ pc = "fetch"
    /\ \E data \in PageResponses(page_count + 1 < MaxPages) :
          /\ fetch_log' = Append(fetch_log, [url |-> url,
                                             params |-> RequestParams(url, params),
                                             ok |-> TRUE, data |-> data])
          /\ all_events' = all_events \o ResponseEvents(data)
          /\ n_listed_events' = n_listed_events + Len(ResponseEvents(data))
          /\ url' = NextUrl(data)
          /\ pc' = IF Truthy(NextUrl(data)) THEN "fetch" ELSE "fetched"
    /\ page_count' = page_count + 1
    /\ params' = ParamsAfterPage(params)
    /\ n_list_requests' = n_list_requests + 1
    /\ UNCHANGED <<chunk_vars, extract_vars, input_vars, metrics_response, metric_id,
                   chunks, chunk_i, detail_vars, chunk_events, chunk_data,
                   all_extracted_data, n_metric_requests, n_detail_requests,
                   failed_chunks, save_calls, csv_file>>

\* lines 99-100 and 117-119: the request or raise_for_status raises a
\* RequestException; the loop is left
FetchPageFail ==
    /\ pc = "fetch"
    /\ fetch_log' = Append(fetch_log, [url |-> url,
                                       params |-> RequestParams(url, params),
                                       ok |-> FALSE, data |-> Null])
    /\ n_list_requests' = n_list_requests + 1
    /\ failed_chunks' = failed_chunks \cup {chunk_i}
    /\ pc' = "fetched"
    /\ UNCHANGED <<chunk_vars, extract_vars, input_vars, metrics_response, metric_id,
                   chunks, chunk_i, url, params, all_events, page_count, detail_vars,
                   chunk_events, chunk_data, all_extracted_data, n_metric_requests,
                   n_detail_requests, n_listed_events, save_calls, csv_file>>

\* lines 177-179: no events in the chunk
ChunkEmpty ==
    /\ pc = "fetched"
    /\ all_events = <<>>
    /\ ResetChunkLocals
    /\ chunk_i' = chunk_i + 1
    /\ pc' = "chunk_loop"
    /\ UNCHANGED <<chunk_vars, extract_vars, input_vars, metrics_response, metric_id,
                   chunks, all_extracted_data, count_vars, save_calls, csv_file>>

\* lines 182-183 and 126-129
DetailStart ==
    /\ pc = "fetched"
    /\ all_events # <<>>
    /\ detailed
    /\ chunk_events' = all_events
    /\ event_ids' = [j \in 1..Len(all_events) |-> DictGet(all_events[j], "id", Null)]
    /\ detail_i' = 1
    /\ detailed_events' = <<>>
    /\ lookup_log' = <<>>
    /\ pc' = "detail"
    /\ UNCHANGED <<chunk_vars, extract_vars, input_vars, metrics_response, metric_id,
                   chunks, chunk_i, fetch_vars, chunk_data, all_extracted_data,
                   count_vars, save_calls, csv_file>>

\* lines 131-134 with get_event_by_id, lines 32-47; after the last id,
\* lines 144 and 185
DetailLookup ==
    /\ pc = "detail"
    /\ detail_i <= Len(event_ids)
    /\ \E event_data \in LookupResults(event_ids[detail_i]) :
          LET appended == IF Truthy(event_data)
                          THEN Append(detailed_events, DictGet(event_data, "data", Null))
                          ELSE detailed_events
          IN  /\ detailed_events' = appended
              /\ lookup_log' = Append(lookup_log, [id |-> event_ids[detail_i],
                                                   result |-> event_data])
              /\ chunk_events' = IF detail_i = Len(event_ids) THEN appended ELSE chunk_events
    /\ detail_i' = detail_i + 1
    /\ pc' = IF detail_i = Len(event_ids) THEN "extract" ELSE "detail"
    /\ n_detail_requests' = n_detail_requests + 1
    /\ UNCHANGED <<chunk_vars, extract_vars, input_vars, metrics_response, metric_id,
                   chunks, chunk_i, fetch_vars, event_ids, chunk_data,
                   all_extracted_data, n_metric_requests, n_list_requests,
                   n_listed_events, failed_chunks, save_calls, csv_file>>

\* lines 188-189: an exception of extract_review_data is caught nowhere and
\* ends the run
Extract(events) ==
    LET result == extract_review_data(events) IN
    /\ chunk_events' = events
    /\ chunk_data' = IF result.raised THEN chunk_data ELSE result.rows
    /\ all_extracted_data' =
          IF result.raised THEN all_extracted_data ELSE all_extracted_data \o result.rows
    /\ pc' = IF result.raised THEN "raised" ELSE "chunk_end"

ExtractBulk ==
    /\ pc = "fetched"
    /\ all_events # <<>>
    /\ ~detailed
    /\ Extract(all_events)
    /\ UNCHANGED <<chunk_vars, extract_vars, input_vars, metrics_response, metric_id,
                   chunks, chunk_i, fetch_vars, detail_vars, count_vars, save_calls,
                   csv_file>>

ExtractDetailed ==
    /\ pc = "extract"
    /\ Extract(chunk_events)
    /\ UNCHANGED <<chunk_vars, extract_vars, input_vars, metrics_response, metric_id,
                   chunks, chunk_i, fetch_vars, detail_vars, count_vars, save_calls,
                   csv_file>>

\* line 191 and the next iteration of the loop at line 171
ChunkCompleted ==
    /\ pc = "chunk_end"
    /\ ResetChunkLocals
    /\ chunk_i' = chunk_i + 1
    /\ pc' = "chunk_loop"
    /\ UNCHANGED <<chunk_vars, extract_vars, input_vars, metrics_response, metric_id,
                   chunks, all_extracted_data, count_vars, save_calls, csv_file>>

\* lines 193-194 and 310-312
ProcessReturnAlwaysSaves ==
    /\ pc = "chunk_loop"
    /\ chunk_i > Len(chunks)
    /\ pc' = "save"
    /\ UNCHANGED <<chunk_vars, extract_vars, input_vars, metrics_response, metric_id,
                   chunks, chunk_i, fetch_vars, detail_vars, chunk_events, chunk_data,
                   all_extracted_data, count_vars, save_calls, csv_file>>

ProcessReturn ==
    /\ pc = "chunk_loop"
    /\ chunk_i > Len(chunks)
    /\ pc' = IF all_extracted_data = <<>> THEN "done" ELSE "save"
    /\ UNCHANGED <<chunk_vars, extract_vars, input_vars, metrics_response, metric_id,
                   chunks, chunk_i, fetch_vars, detail_vars, chunk_events, chunk_data,
                   all_extracted_data, count_vars, save_calls, csv_file>>

\* line 315 and save_to_csv, lines 260-269
SaveToCsv ==
    /\ pc = "save"
    /\ save_calls' = save_calls + 1
    /\ csv_file' = IF all_extracted_data = <<>> THEN csv_file
                   ELSE [t |-> "csv", v |-> all_extracted_data]
    /\ pc' = "done"
    /\ UNCHANGED <<chunk_vars, extract_vars, input_vars, metrics_response, metric_id,
                   chunks, chunk_i, fetch_vars, detail_vars, chunk_events, chunk_data,
                   all_extracted_data, count_vars>>

Next ==
    \/ MainResolveKey
    \/ GetReviewMetricId
    \/ ProcessStart
    \/ FetchStart
    \/ FetchPageOk
    \/ FetchPageFail
    \/ ChunkEmpty
    \/ DetailStart
    \/ DetailLookup
    \/ ExtractBulk
    \/ ExtractDetailed
    \/ ChunkCompleted
    \/ ProcessReturn
    \/ SaveToCsv

Spec == Init /\ [][Next]_vars

----------------------------------------------------------------------------
(* Properties of generate_date_chunks *)

DateLeq(a, b) == Strptime(a) <= Strptime(b)

\* number of calendar months that the range [a, b] touches
MonthsSpanned(a, b) == (b[1] - a[1]) * 12 + (b[2] - a[2]) + 1

ChunkReturned == cs_pc = "returned" /\ DateLeq(cs_start, cs_end)

\* C1: for start <= end the chunks are a non-empty ordered list whose first
\* chunk starts at start, whose last chunk ends at end, where every chunk has
\* chunk_start <= chunk_end and every chunk starts on the day after the
\* previous chunk's end.
C1_ChunksCoverExactly ==
    ChunkReturned =>
        /\ Len(cs_chunks) >= 1
        /\ cs_chunks[1][1] = cs_start
        /\ cs_chunks[Len(cs_chunks)][2] = cs_end
        /\ \A i \in 1..Len(cs_chunks) : DateLeq(cs_chunks[i][1], cs_chunks[i][2])
        /\ \A i \in 1..(Len(cs_chunks) - 1) :
              Strptime(cs_chunks[i][2]) + 1 = Strptime(cs_chunks[i + 1][1])

\* a range that starts on the 31st, crosses February and is cut by the end
C1_Witness ==
    /\ ChunkReturned
    /\ cs_start[3] = 31
    /\ Len(cs_chunks) >= 3
    /\ cs_chunks[Len(cs_chunks)][2] = cs_end
    /\ cs_end[3] # cs_chunks[Len(cs_chunks) - 1][2][3]

\* C2 as stated: the number of chunks equals the number of calendar months
\* that the range spans.
C2_CountEqualsCalendarMonths ==
    ChunkReturned => Len(cs_chunks) = MonthsSpanned(cs_start, cs_end)

\* C2 amended: a range inside one calendar month yields exactly the input; a
\* range that starts on the first day of a month yields one chunk per
\* calendar month spanned; any range spanning N months yields N or N - 1
\* chunks.
C2_CountAmended ==
    ChunkReturned =>
        LET N == MonthsSpanned(cs_start, cs_end) IN
        /\ (N = 1 => cs_chunks = <<(<<cs_start, cs_end>>)>>)
        /\ (cs_start[3] = 1 => Len(cs_chunks) = N)
        /\ Len(cs_chunks) <= N
        /\ Len(cs_chunks) >= N - 1
        /\ Len(cs_chunks) >= 1

\* a range from mid-month into the next month that yields a single chunk
C2_Witness ==
    /\ ChunkReturned
    /\ cs_start[3] > 1
    /\ MonthsSpanned(cs_start, cs_end) = 2
    /\ Len(cs_chunks) = 1

----------------------------------------------------------------------------
(* Properties of extract_review_data *)

\* an iteration has run on ex_event
Iterated == ex_pc \in {"loop", "returned", "raised"} /\ ex_event # Null

\* the iteration on ex_event appended ex_row
RowProduced == Iterated /\ ex_row # Raise

EventAttributes == DictGet(ex_event, "attributes", EmptyDict)

HasKey(o, k) == IsObj(o) /\ k \in DOMAIN o.v

NonEmptyObject(x) == IsObj(x) /\ DOMAIN x.v # {}

\* C7 as stated: the row holds all nine product/variant columns exactly when
\* the property bag has a "product" key, and none of them otherwise.
C7_NineColumnsIffProductKey ==
    RowProduced =>
        LET bag == PropertyBag(EventAttributes) IN
        /\ HasKey(bag, "product") => ProductColumns \subseteq DOMAIN ex_row.v
        /\ ~HasKey(bag, "product") => ProductColumns \cap DOMAIN ex_row.v = {}

\* C7 amended: the row holds all nine product/variant columns exactly when
\* the value under "product" is a non-empty object, with null for every
\* sub-field that is missing; when the key is absent, or its value is null
\* or an empty object, the row holds none of the nine.  No row holds a
\* strict, non-empty subset of the nine.
C7_NineColumnsIffProductNonEmpty ==
    RowProduced =>
        LET bag == PropertyBag(EventAttributes)
            product == IF HasKey(bag, "product") THEN bag.v["product"] ELSE Null
        IN
        /\ NonEmptyObject(product) =>
              /\ ProductColumns \subseteq DOMAIN ex_row.v
              /\ ~HasKey(product, "id") => ex_row.v["product_id"] = Null
              /\ ~HasKey(product, "tags") => ex_row.v["product_tags"] = Null
              /\ ~NonEmptyObject(DictGet(product, "variant", Null)) =>
                    /\ ex_row.v["variant_id"] = Null
                    /\ ex_row.v["variant_title"] = Null
                    /\ ex_row.v["variant_sku"] = Null
        /\ ~NonEmptyObject(product) => ProductColumns \cap DOMAIN ex_row.v = {}

\* a bag whose "product" key holds an empty object gives a row without the
\* nine columns
C7_Witness ==
    /\ RowProduced
    /\ HasKey(PropertyBag(EventAttributes), "product")
    /\ PropertyBag(EventAttributes).v["product"] = EmptyDict
    /\ ProductColumns \cap DOMAIN ex_row.v = {}
    /\ "review_id" \in DOMAIN ex_row.v

\* a link of profile -> data -> attributes -> email is absent or null
RECURSIVE LinkMissing(_, _)
LinkMissing(o, path) ==
    IF Len(path) = 0 THEN FALSE
    ELSE \/ ~HasKey(o, Head(path))
         \/ o.v[Head(path)] = Null
         \/ LinkMissing(o.v[Head(path)], Tail(path))

ProfileChain == <<"profile", "data", "attributes", "email">>

\* C8 as stated: for an event whose property bag is a dict, whichever link
\* of the profile chain is absent or null, the iteration does not raise and
\* the row's profile_email is null.
C8_MissingLinkYieldsNull ==
    (/\ Iterated
     /\ IsObj(EventAttributes)
     /\ IsObj(PropertyBag(EventAttributes))
     /\ LinkMissing(EventAttributes, ProfileChain)) =>
        /\ ex_pc # "raised"
        /\ ex_row # Raise
        /\ ex_row.v["profile_email"] = Null

\* the property bag as C10 states it
BagByKeyPresence(attributes) ==
    IF HasKey(attributes, "event_properties") THEN attributes.v["event_properties"]
    ELSE IF HasKey(attributes, "properties") THEN attributes.v["properties"]
    ELSE EmptyDict

\* the property bag as C10 amended states it
BagByNonEmptiness(attributes) ==
    IF HasKey(attributes, "event_properties")
       /\ NonEmptyObject(attributes.v["event_properties"])
    THEN attributes.v["event_properties"]
    ELSE IF HasKey(attributes, "properties") THEN attributes.v["properties"]
    ELSE EmptyDict

\* C10 as stated, for events whose bags are objects: the columns come from
\* the value under "event_properties" whenever that key is present, from
\* "properties" only when it is absent, and from the empty bag when both
\* are absent.
C10_BagByKeyPresence ==
    (/\ Iterated
     /\ IsObj(EventAttributes)
     /\ HasKey(EventAttributes, "event_properties") =>
            IsObj(EventAttributes.v["event_properties"])
     /\ HasKey(EventAttributes, "properties") =>
            IsObj(EventAttributes.v["properties"])) =>
        ex_row = RowFromBag(ex_event, EventAttributes, BagByKeyPresence(EventAttributes))

\* C10 amended: the columns come from the value under "event_properties"
\* when that value is a non-empty object; when the key is absent or holds
\* null or an empty object they come from the value under "properties" if
\* that key is present and from the empty bag if it is absent.  The contents
\* of "properties" never reach the row when "event_properties" is a
\* non-empty object.
C10_BagByNonEmptiness ==
    (Iterated /\ IsObj(EventAttributes)) =>
        /\ ex_row = RowFromBag(ex_event, EventAttributes, BagByNonEmptiness(EventAttributes))
        /\ (/\ RowProduced
            /\ HasKey(EventAttributes, "event_properties")
            /\ NonEmptyObject(EventAttributes.v["event_properties"])) =>
              /\ ex_row.v["review_id"] = Str("detail")
              /\ \A c \in ProductColumns \cap DOMAIN ex_row.v :
                    HasKey(EventAttributes.v["event_properties"], "product")
        /\ (/\ RowProduced
            /\ ~HasKey(EventAttributes, "event_properties")
            /\ ~HasKey(EventAttributes, "properties")) =>
              \A f \in ReviewFields : ex_row.v[f] = Null

\* "event_properties" is present and empty, and the row is built from the
\* non-empty "properties"
C10_Witness ==
    /\ RowProduced
    /\ HasKey(EventAttributes, "event_properties")
    /\ EventAttributes.v["event_properties"] = EmptyDict
    /\ HasKey(EventAttributes, "properties")
    /\ NonEmptyObject(EventAttributes.v["properties"])
    /\ ex_row.v["review_id"] = Str("bulk")

----------------------------------------------------------------------------
(* Properties of a run of main *)

\* the metrics of the listing that are named "Submitted review", by index
ReviewMetricIndexes ==
    IF HasKey(metrics_response, "data")
    THEN {j \in 1..Len(metrics_response.v["data"].v) :
            LET m == metrics_response.v["data"].v[j] IN
            /\ HasKey(m, "attributes")
            /\ HasKey(m.v["attributes"], "name")
            /\ m.v["attributes"].v["name"] = Str("Submitted review")}
    ELSE {}

\* the identifier the listing gives for the review metric, Null if none
ListedMetricId ==
    IF ReviewMetricIndexes = {} THEN Null
    ELSE LET j == CHOOSE k \in ReviewMetricIndexes : \A l \in ReviewMetricIndexes : k <= l
             m == metrics_response.v["data"].v[j]
         IN  IF HasKey(m, "id") THEN m.v["id"] ELSE Null

C4_WriteOnceAtEnd ==
    /\ save_calls <= 1
    /\ pc = "save" => chunk_i > Len(chunks) /\ save_calls = 0
    /\ save_calls = 1 =>
          /\ pc = "done"
          /\ chunk_i > Len(chunks)
          /\ all_extracted_data # <<>>
          /\ csv_file = [t |-> "csv", v |-> all_extracted_data]
    /\ save_calls = 0 => csv_file = Null
    /\ n_listed_events = 0 => save_calls = 0 /\ csv_file = Null /\ pc # "save"

\* two chunks were listed, both empty, and the run ended without a write
C4_Witness ==
    /\ pc = "done"
    /\ Len(chunks) = 2
    /\ chunk_i = 3
    /\ n_list_requests >= 2
    /\ n_listed_events = 0
    /\ save_calls = 0
    /\ csv_file = Null

\* the "next" link of an answer, Null if the answer has none
LinkOf(data) ==
    IF HasKey(data, "links") /\ HasKey(data.v["links"], "next")
    THEN data.v["links"].v["next"]
    ELSE Null

HasNext(entry) == entry.ok /\ LinkOf(entry.data) \notin {Null, Str("")}

RECURSIVE ConcatPages(_)
ConcatPages(log) ==
    IF Len(log) = 0 THEN <<>>
    ELSE (IF Head(log).ok /\ HasKey(Head(log).data, "data")
          THEN Head(log).data.v["data"].v ELSE <<>>)
         \o ConcatPages(Tail(log))

InChunk == pc \in {"fetch", "fetched", "detail", "extract", "chunk_end", "raised"}

\* C9: in one call of fetch_review_events the first request goes to the
\* events endpoint with the filter, page size 200, sort and include
\* parameters; every later request follows an answered request, goes to
\* that answer's "next" link and carries no parameters; a failed request is
\* never followed by another one; the loop goes on while the last answer
\* has a "next" link and has stopped once an answer has none; the events
\* collected are those of the answered pages in request order.
C9_PaginationFollowsNextLinks ==
    InChunk =>
        LET n == Len(fetch_log) IN
        /\ n >= 1 =>
              /\ fetch_log[1].url = Str(EventsUrl)
              /\ fetch_log[1].params =
                    [filter |-> <<<<"equals", "metric_id", metric_id>>,
                                  <<"greater-or-equal", "datetime", chunks[chunk_i][1], "T00:00:00Z">>,
                                  <<"less-or-equal", "datetime", chunks[chunk_i][2], "T23:59:59Z">>>>,
                     page_size |-> 200, sort |-> "datetime", include |-> "metric"]
        /\ \A i \in 2..n :
              /\ HasNext(fetch_log[i - 1])
              /\ fetch_log[i].url = LinkOf(fetch_log[i - 1].data)
              /\ fetch_log[i].params = Null
        /\ pc = "fetch" =>
              /\ n = 0 => url = Str(EventsUrl)
              /\ n >= 1 => HasNext(fetch_log[n]) /\ url = LinkOf(fetch_log[n].data)
        /\ pc # "fetch" => n >= 1 /\ ~HasNext(fetch_log[n])
        /\ all_events = ConcatPages(fetch_log)
        /\ page_count = Cardinality({i \in 1..n : fetch_log[i].ok})

\* two pages were fetched; the second request went to the first answer's
\* "next" link, which names the events endpoint itself, without parameters
C9_Witness ==
    /\ pc = "fetched"
    /\ Len(fetch_log) = 2
    /\ fetch_log[1].ok /\ fetch_log[2].ok
    /\ fetch_log[2].url = Str(EventsUrl)
    /\ fetch_log[2].params = Null
    /\ Len(all_events) = 2

\* C5 as stated: a failed page request ends the chunk's pagination with the
\* events of the earlier pages, and after a failure in chunk c the run
\* fetches every chunk after c.
C5_FailedPageOnlyTruncatesChunk ==
    /\ (InChunk /\ Len(fetch_log) >= 1 /\ ~fetch_log[Len(fetch_log)].ok) =>
          /\ pc # "fetch"
          /\ all_events = ConcatPages(fetch_log)
          /\ \A i \in 1..(Len(fetch_log) - 1) : fetch_log[i].ok
    /\ pc \in {"done", "raised", "save"} =>
          \A c \in failed_chunks : \A j \in (c + 1)..Len(chunks) : j <= chunk_i

\* C6 as stated: in detailed mode, once a chunk with listed events has been
\* processed, get_event_by_id was called once per listed event in listing
\* order, and the rows appended for the chunk are the extractions of the
\* payloads of the lookups that returned a result, one row each, in order.
C6_DetailedRowsMatchLookups ==
    (detailed /\ pc \in {"chunk_end", "raised"}) =>
        LET results == SelectSeq(lookup_log, LAMBDA l : l.result # Null) IN
        /\ Len(lookup_log) = Len(all_events)
        /\ \A j \in 1..Len(lookup_log) :
              HasKey(all_events[j], "id") /\ lookup_log[j].id = all_events[j].v["id"]
        /\ pc # "raised"
        /\ Len(chunk_data) = Len(results)
        /\ \A j \in 1..Len(results) :
              chunk_data[j] = ExtractRow(results[j].result.v["data"])

====
